---- MODULE Spec2Model ----
(***************************************************************************)
(* Supervision state machine of src/src/server/server.py (class Server).   *)
(*                                                                         *)
(* One main thread runs Server.run -> Server.main -> wait_for_connection   *)
(* -> battery_loop; its position is pc, labelled by source line.  The      *)
(* telemetry poller started by call_repeatedly runs Server.stats_loop      *)
(* concurrently.  The environment changes the power source at any moment.  *)
(* The clock (time.time()) is counted in ticks, TicksPerSecond ticks to a  *)
(* second, so that int(time()) is a real truncation.                       *)
(***************************************************************************)
EXTENDS Integers, FiniteSets, Sequences, TLC

\* ---- program constants (class attributes of Server) ----
WOL_PACKET_INTERVAL == 10
SSH_RETRY_LIMIT == 5
SSH_RETRY_INTERVAL == 10
BATTERY_CHECK_INTERVAL == 5
BATTERY_CHECK_INTERVAL_DURING_SHUTDOWN == 1
SETTLE_SLEEP == 20

\* ---- bounds of the model ----
\* int(self.SHUTDOWN_DELAY * 60) in seconds, for the shutdown_delay the Server
\* was constructed with (0.05 minutes gives 3 seconds).
ShutdownDelaySeconds == 3
\* clock ticks per second: time() has sub-second resolution.
TicksPerSecond == 2
\* a sleep may overshoot by up to Jitter ticks.
Jitter == 1
\* the clock stops the model at MaxTime ticks.
MaxTime == 56
\* pollers left running by earlier cycles, at most.
MaxStale == 1
\* distinct telemetry payloads.
MaxStats == 1

VARIABLES
    pc,              \* position of the main thread (source line about to run)
    wake_ret,        \* call site wait_for_client_wakeup returns to
    connection,      \* self.connection: "None", "unopened", "open", "closed"
    shared_data,     \* self.shared_data: function from the keys present
    retry_count,     \* local of ssh_connect
    on_mains_read,   \* value of self.on_mains_power read at line 120
    start_clock,     \* time() as read at line 170, in ticks
    start_time,      \* local of battery_loop, seconds
    shutdown_time,   \* local of battery_loop, seconds
    now,             \* the clock, in ticks
    power,           \* the power source: "mains" or "battery"
    UI,              \* self.UI
    kill_stats_loop, \* self.kill_stats_loop: "None", "live", "stopped"
    stale,           \* pollers still running that kill_stats_loop no longer names
    event,           \* the last step the program took
    cmds,            \* shutdown commands issued since the countdown started
    flips,           \* power changes since the countdown started (2 = several)
    mains_since,     \* tick of the last change to mains during the countdown
    mains_polls,     \* polls of line 178 that read mains during the countdown
    closed_by        \* who closed the handle last: "", "battery_loop", "run"

vars == <<pc, wake_ret, connection, shared_data, retry_count, on_mains_read,
          start_clock, start_time, shutdown_time, now, power, UI,
          kill_stats_loop, stale, event, cmds, flips, mains_since, mains_polls,
          closed_by>>

\* the locals of battery_loop and the history of its countdown
countdown_vars ==
    <<start_clock, start_time, shutdown_time, flips, mains_since, mains_polls>>
poller_vars == <<kill_stats_loop, stale>>

StatsValues == 1..MaxStats

\* ---- helpers ----
\* d[k] = v
Put(d, k, v) == [x \in (DOMAIN d) \cup {k} |-> IF x = k THEN v ELSE d[x]]
\* del d[k]
Del(d, k) == [x \in (DOMAIN d) \ {k} |-> d[x]]
\* d.get(k) is v
Has(d, k, v) == k \in DOMAIN d /\ d[k] = v

\* int(time())
IntTime(t) == t \div TicksPerSecond
\* line 177 with < for <=
TimeLeq_strict(t, s) == t < s * TicksPerSecond

\* time() <= s for an integer number of seconds s
TimeLeq(t, s) == t <= s * TicksPerSecond

\* sleep(d): at least d seconds pass
Sleep(d) ==
    \E j \in 0..Jitter :
        /\ now + d * TicksPerSecond + j <= MaxTime
        /\ now' = now + d * TicksPerSecond + j

Ev(op, outcome, raised) == [op |-> op, outcome |-> outcome, raised |-> raised]

ActivePollers == stale + (IF kill_stats_loop = "live" THEN 1 ELSE 0)

InCountdown == pc \in {"L173", "L174", "L177", "L178", "L179", "L180", "L184", "L188"}

Init ==
    /\ pc = "L224"
    /\ wake_ret = "L153"
    /\ connection = "None"
    /\ shared_data = <<>>
    /\ retry_count = 0
    /\ on_mains_read = FALSE
    /\ start_clock = 0
    /\ start_time = 0
    /\ shutdown_time = 0
    /\ now \in 0..(TicksPerSecond - 1)
    /\ power \in {"mains", "battery"}
    /\ UI \in BOOLEAN
    /\ kill_stats_loop = "None"
    /\ stale = 0
    /\ event = Ev("init", "", FALSE)
    /\ cmds = 0
    /\ flips = 0
    /\ mains_since = 0
    /\ mains_polls = 0
    /\ closed_by = ""

\* ---- Server.run / Server.main entry ----
run_224 ==
    /\ pc = "L224"
    /\ pc' = "L204"
    /\ event' = Ev("L224", "", FALSE)
    /\ UNCHANGED <<wake_ret, connection, shared_data, retry_count, on_mains_read,
                   countdown_vars, now, power, UI, poller_vars, cmds, closed_by>>

\* main line 204 calls wait_for_connection, whose line 153 calls
\* wait_for_client_wakeup
main_204 ==
    /\ pc = "L204"
    /\ pc' = "L115"
    /\ wake_ret' = "L153"
    /\ event' = Ev("L204", "", FALSE)
    /\ UNCHANGED <<connection, shared_data, retry_count, on_mains_read,
                   countdown_vars, now, power, UI, poller_vars, cmds, closed_by>>

\* ---- Server.wait_for_client_wakeup ----
\* line 115: the ping answers or not; on an answer the function returns to its
\* call site (line 153 goes on to ssh_connect, line 155 to the back-off sleep)
wait_for_client_wakeup_115 ==
    /\ pc = "L115"
    /\ \E alive \in BOOLEAN :
        /\ pc' = IF alive THEN (IF wake_ret = "L153" THEN "L154" ELSE "L156")
                 ELSE "L120"
        /\ event' = Ev("L115", IF alive THEN "alive" ELSE "dead", FALSE)
    /\ on_mains_read' = FALSE
    /\ UNCHANGED <<wake_ret, connection, shared_data, retry_count,
                   countdown_vars, now, power, UI, poller_vars, cmds, closed_by>>

\* line 120 without its test: the packet is sent whatever was read
WolBranch_unguarded(mains) == "L122"

\* the branch of line 120 on the power source it read
WolBranch(mains) == IF mains THEN "L122" ELSE "L126"

wait_for_client_wakeup_120 ==
    /\ pc = "L120"
    /\ on_mains_read' = (power = "mains")
    /\ pc' = WolBranch(power = "mains")
    /\ event' = Ev("L120", power, FALSE)
    /\ UNCHANGED <<wake_ret, connection, shared_data, retry_count,
                   countdown_vars, now, power, UI, poller_vars, cmds, closed_by>>

\* line 122: send_wol_packet()
wait_for_client_wakeup_122 ==
    /\ pc = "L122"
    /\ pc' = "L126"
    /\ event' = Ev("L122", "wol", FALSE)
    /\ UNCHANGED <<wake_ret, connection, shared_data, retry_count, on_mains_read,
                   countdown_vars, now, power, UI, poller_vars, cmds, closed_by>>

\* lines 126-127 without the sleep of line 127
wait_for_client_wakeup_126_nosleep ==
    /\ pc = "L126"
    /\ pc' = "L115"
    /\ event' = Ev("L126", power, FALSE)
    /\ UNCHANGED <<wake_ret, connection, shared_data, retry_count, on_mains_read,
                   countdown_vars, now, power, UI, poller_vars, cmds, closed_by>>

\* lines 126-127: the power source is read again for the log line only, then
\* sleep(WOL_PACKET_INTERVAL)
wait_for_client_wakeup_126 ==
    /\ pc = "L126"
    /\ Sleep(WOL_PACKET_INTERVAL)
    /\ pc' = "L115"
    /\ event' = Ev("L126", power, FALSE)
    /\ UNCHANGED <<wake_ret, connection, shared_data, retry_count, on_mains_read,
                   countdown_vars, power, UI, poller_vars, cmds, closed_by>>

\* ---- Server.ssh_connect ----
\* line 154 calls ssh_connect; line 135: retry_count = 0
ssh_connect_135 ==
    /\ pc = "L154"
    /\ retry_count' = 0
    /\ pc' = "L137"
    /\ event' = Ev("L135", "", FALSE)
    /\ UNCHANGED <<wake_ret, connection, shared_data, on_mains_read,
                   countdown_vars, now, power, UI, poller_vars, cmds, closed_by>>

\* line 137 with <= for <
RetryAllowed_inclusive(n) == n <= SSH_RETRY_LIMIT

\* the loop test of line 137
RetryAllowed(n) == n < SSH_RETRY_LIMIT

ssh_connect_137 ==
    /\ pc = "L137"
    /\ pc' = IF RetryAllowed(retry_count) THEN "L140" ELSE "L148"
    /\ event' = Ev("L137", "", FALSE)
    /\ UNCHANGED <<wake_ret, connection, shared_data, retry_count, on_mains_read,
                   countdown_vars, now, power, UI, poller_vars, cmds, closed_by>>

\* line 140: self.connection = Connection(self.client), not yet opened
ssh_connect_140 ==
    /\ pc = "L140"
    /\ connection' = "unopened"
    /\ pc' = "L141"
    /\ event' = Ev("L140", "", FALSE)
    /\ UNCHANGED <<wake_ret, shared_data, retry_count, on_mains_read,
                   countdown_vars, now, power, UI, poller_vars, cmds, closed_by>>

\* line 141 with the SSHException handler returning True
OpenTarget_optimistic(outcome) ==
    CASE outcome = "ok" -> "L142"
      [] outcome = "SSHException" -> "L142"
      [] OTHER -> "L226"

\* where line 141 goes on each outcome of self.connection.open(): on success
\* to line 142, on SSHException (lines 144-146) back to the loop test, and a
\* NoValidConnectionsError, which is no SSHException, unwinds to run (line 225)
OpenTarget(outcome) ==
    CASE outcome = "ok" -> "L142"
      [] outcome = "SSHException" -> "L137"
      [] OTHER -> "L226"

ssh_connect_141 ==
    /\ pc = "L141"
    /\ \E outcome \in {"ok", "SSHException", "NoValidConnectionsError"} :
        /\ pc' = OpenTarget(outcome)
        /\ connection' = IF outcome = "ok" THEN "open" ELSE connection
        /\ closed_by' = IF outcome = "ok" THEN "" ELSE closed_by
        /\ retry_count' = CASE outcome = "SSHException" -> retry_count + 1
                            [] outcome = "NoValidConnectionsError" -> 0
                            [] OTHER -> retry_count
        /\ event' = Ev("L141", outcome, outcome = "NoValidConnectionsError")
    /\ UNCHANGED <<wake_ret, shared_data, on_mains_read,
                   countdown_vars, now, power, UI, poller_vars, cmds>>

\* lines 142-143: publish connection = True and return True; wait_for_connection
\* leaves its loop and returns to main, line 206
ssh_connect_142 ==
    /\ pc = "L142"
    /\ shared_data' = Put(shared_data, "connection", TRUE)
    /\ retry_count' = 0
    /\ pc' = "L206"
    /\ event' = Ev("L142", "", FALSE)
    /\ UNCHANGED <<wake_ret, connection, on_mains_read,
                   countdown_vars, now, power, UI, poller_vars, cmds, closed_by>>

\* lines 148-149 with lines 155 and 156 of wait_for_connection exchanged: the
\* back-off sleep comes first
ssh_connect_148_backoff_first ==
    /\ pc = "L148"
    /\ shared_data' = Put(shared_data, "connection", FALSE)
    /\ pc' = "L156"
    /\ wake_ret' = "L155"
    /\ event' = Ev("L148", "", FALSE)
    /\ UNCHANGED <<connection, retry_count, on_mains_read,
                   countdown_vars, now, power, UI, poller_vars, cmds, closed_by>>

\* lines 148-149: publish connection = False and return False; line 155 of
\* wait_for_connection calls wait_for_client_wakeup again
ssh_connect_148 ==
    /\ pc = "L148"
    /\ shared_data' = Put(shared_data, "connection", FALSE)
    /\ pc' = "L115"
    /\ wake_ret' = "L155"
    /\ event' = Ev("L148", "", FALSE)
    /\ UNCHANGED <<connection, retry_count, on_mains_read,
                   countdown_vars, now, power, UI, poller_vars, cmds, closed_by>>

\* ---- Server.wait_for_connection ----
\* line 156: sleep(SSH_RETRY_INTERVAL), then the loop test calls ssh_connect
wait_for_connection_156 ==
    /\ pc = "L156"
    /\ Sleep(SSH_RETRY_INTERVAL)
    /\ pc' = "L154"
    /\ event' = Ev("L156", "", FALSE)
    /\ UNCHANGED <<wake_ret, connection, shared_data, retry_count, on_mains_read,
                   countdown_vars, power, UI, poller_vars, cmds, closed_by>>

\* ---- utils.call_repeatedly ----
\* starts a poller that runs stats_loop on its own cadence until the returned
\* function is called; a poller the previous value of kill_stats_loop named and
\* that was never stopped keeps running
call_repeatedly ==
    /\ kill_stats_loop = "live" => stale < MaxStale
    /\ stale' = IF kill_stats_loop = "live" THEN stale + 1 ELSE stale
    /\ kill_stats_loop' = "live"

\* self.kill_stats_loop(): stops the poller it names
KillStatsLoop ==
    /\ kill_stats_loop' = "stopped"
    /\ stale' = stale

\* ---- Server.main ----
\* lines 206-207
main_206 ==
    /\ pc = "L206"
    /\ IF UI THEN call_repeatedly ELSE UNCHANGED poller_vars
    /\ pc' = "L165"
    /\ event' = Ev("L206", "", FALSE)
    /\ UNCHANGED <<wake_ret, connection, shared_data, retry_count, on_mains_read,
                   countdown_vars, now, power, UI, cmds, closed_by>>

\* line 211: sleep(BATTERY_CHECK_INTERVAL), then battery_loop again
main_211 ==
    /\ pc = "L211"
    /\ Sleep(BATTERY_CHECK_INTERVAL)
    /\ pc' = "L165"
    /\ event' = Ev("L211", "", FALSE)
    /\ UNCHANGED <<wake_ret, connection, shared_data, retry_count, on_mains_read,
                   countdown_vars, power, UI, poller_vars, cmds, closed_by>>

\* lines 214-215, then the while True of line 203 starts the next pass
main_214 ==
    /\ pc = "L214"
    /\ IF UI THEN KillStatsLoop ELSE UNCHANGED poller_vars
    /\ pc' = "L204"
    /\ event' = Ev("L214", "", FALSE)
    /\ UNCHANGED <<wake_ret, connection, shared_data, retry_count, on_mains_read,
                   countdown_vars, now, power, UI, cmds, closed_by>>

\* ---- Server.battery_loop ----
NoCountdown ==
    /\ start_clock' = 0
    /\ start_time' = 0
    /\ shutdown_time' = 0
    /\ flips' = 0
    /\ mains_since' = 0
    /\ mains_polls' = 0

\* lines 165-171: on mains return True (main sleeps at line 211); otherwise
\* start_time = int(time()), shutdown_time = start_time + int(SHUTDOWN_DELAY * 60)
battery_loop_165 ==
    /\ pc = "L165"
    /\ IF power = "mains"
       THEN /\ pc' = "L211"
            /\ UNCHANGED <<countdown_vars, cmds>>
       ELSE /\ pc' = "L173"
            /\ start_clock' = now
            /\ start_time' = IntTime(now)
            /\ shutdown_time' = IntTime(now) + ShutdownDelaySeconds
            /\ flips' = 0
            /\ mains_since' = 0
            /\ mains_polls' = 0
            /\ cmds' = 0
    /\ event' = Ev("L165", power, FALSE)
    /\ UNCHANGED <<wake_ret, connection, shared_data, retry_count, on_mains_read,
                   now, power, UI, poller_vars, closed_by>>

\* line 173
battery_loop_173 ==
    /\ pc = "L173"
    /\ shared_data' = Put(shared_data, "shutdown_scheduled", TRUE)
    /\ pc' = "L174"
    /\ event' = Ev("L173", "", FALSE)
    /\ UNCHANGED <<wake_ret, connection, retry_count, on_mains_read,
                   countdown_vars, now, power, UI, poller_vars, cmds, closed_by>>

\* line 174
battery_loop_174 ==
    /\ pc = "L174"
    /\ shared_data' = Put(shared_data, "shutdown_timestamp", shutdown_time)
    /\ pc' = "L177"
    /\ event' = Ev("L174", "", FALSE)
    /\ UNCHANGED <<wake_ret, connection, retry_count, on_mains_read,
                   countdown_vars, now, power, UI, poller_vars, cmds, closed_by>>

\* line 177: while time() <= shutdown_time
battery_loop_177 ==
    /\ pc = "L177"
    /\ pc' = IF TimeLeq(now, shutdown_time) THEN "L178" ELSE "L188"
    /\ event' = Ev("L177", "", FALSE)
    /\ UNCHANGED <<wake_ret, connection, shared_data, retry_count, on_mains_read,
                   countdown_vars, now, power, UI, poller_vars, cmds, closed_by>>

\* line 178: if self.on_mains_power
battery_loop_178 ==
    /\ pc = "L178"
    /\ pc' = IF power = "mains" THEN "L179" ELSE "L184"
    /\ mains_polls' = IF power = "mains" THEN mains_polls + 1 ELSE mains_polls
    /\ event' = Ev("L178", power, FALSE)
    /\ UNCHANGED <<wake_ret, connection, shared_data, retry_count, on_mains_read,
                   start_clock, start_time, shutdown_time, flips, mains_since,
                   now, power, UI, poller_vars, cmds, closed_by>>

\* line 179
battery_loop_179 ==
    /\ pc = "L179"
    /\ shared_data' = Put(shared_data, "shutdown_scheduled", FALSE)
    /\ pc' = "L180"
    /\ event' = Ev("L179", "", FALSE)
    /\ UNCHANGED <<wake_ret, connection, retry_count, on_mains_read,
                   countdown_vars, now, power, UI, poller_vars, cmds, closed_by>>

\* lines 180-182: del, return True (main sleeps at line 211)
battery_loop_180 ==
    /\ pc = "L180"
    /\ shared_data' = Del(shared_data, "shutdown_timestamp")
    /\ pc' = "L211"
    /\ NoCountdown
    /\ event' = Ev("L180", "", FALSE)
    /\ UNCHANGED <<wake_ret, connection, retry_count, on_mains_read,
                   now, power, UI, poller_vars, cmds, closed_by>>

\* line 184
battery_loop_184 ==
    /\ pc = "L184"
    /\ Sleep(BATTERY_CHECK_INTERVAL_DURING_SHUTDOWN)
    /\ pc' = "L177"
    /\ event' = Ev("L184", "", FALSE)
    /\ UNCHANGED <<wake_ret, connection, shared_data, retry_count, on_mains_read,
                   countdown_vars, power, UI, poller_vars, cmds, closed_by>>

\* line 188 with the failure of the command ignored: the cycle goes on
PoweroffTarget_ignored(outcome) == "L189"

\* where line 188 goes on each outcome of ssh_exec("systemctl poweroff"): an
\* SSHException or NoValidConnectionsError unwinds to run (line 225)
PoweroffTarget(outcome) == IF outcome = "ok" THEN "L189" ELSE "L226"

battery_loop_188 ==
    /\ pc = "L188"
    /\ \E outcome \in {"ok", "SSHException", "NoValidConnectionsError"} :
        /\ pc' = PoweroffTarget(outcome)
        /\ event' = Ev("L188", outcome, outcome # "ok")
    /\ cmds' = cmds + 1
    /\ UNCHANGED <<wake_ret, connection, shared_data, retry_count, on_mains_read,
                   countdown_vars, now, power, UI, poller_vars, closed_by>>

\* line 189
battery_loop_189 ==
    /\ pc = "L189"
    /\ connection' = "closed"
    /\ closed_by' = "battery_loop"
    /\ pc' = "L190"
    /\ event' = Ev("L189", "", FALSE)
    /\ UNCHANGED <<wake_ret, shared_data, retry_count, on_mains_read,
                   countdown_vars, now, power, UI, poller_vars, cmds>>

\* line 190 left out: the closed handle stays held
battery_loop_190_kept ==
    /\ pc = "L190"
    /\ pc' = "L191"
    /\ event' = Ev("L190", "", FALSE)
    /\ UNCHANGED <<wake_ret, connection, shared_data, retry_count, on_mains_read,
                   countdown_vars, now, power, UI, poller_vars, cmds, closed_by>>

\* line 190
battery_loop_190 ==
    /\ pc = "L190"
    /\ connection' = "None"
    /\ pc' = "L191"
    /\ event' = Ev("L190", "", FALSE)
    /\ UNCHANGED <<wake_ret, shared_data, retry_count, on_mains_read,
                   countdown_vars, now, power, UI, poller_vars, cmds, closed_by>>

\* lines 191-192: sleep(20), return False (main goes on at line 214)
battery_loop_191 ==
    /\ pc = "L191"
    /\ Sleep(SETTLE_SLEEP)
    /\ pc' = "L214"
    /\ NoCountdown
    /\ event' = Ev("L191", "", FALSE)
    /\ UNCHANGED <<wake_ret, connection, shared_data, retry_count, on_mains_read,
                   power, UI, poller_vars, cmds, closed_by>>

\* ---- Server.stats_loop, run by each live poller ----
\* what ssh_exec("bd-client") and json.loads can do with the handle as it is:
\* None has no run attribute; only an open handle yields output
StatsOutcomes(conn) ==
    CASE conn = "None" -> {"AttributeError"}
      [] conn = "open" -> {"ok", "malformed", "SSHException", "NoValidConnectionsError"}
      [] OTHER -> {"SSHException", "NoValidConnectionsError"}

\* line 197: the exceptions stats_loop catches
Swallowed(outcome) == outcome \in {"SSHException", "NoValidConnectionsError"}

\* stats_loop run inline by the main thread: what it raises unwinds main to run
stats_loop_inline(outcome, v) ==
    /\ ActivePollers > 0
    /\ outcome \in StatsOutcomes(connection)
    /\ shared_data' = IF outcome = "ok" THEN Put(shared_data, "stats", v)
                      ELSE shared_data
    /\ event' = Ev("stats_loop", outcome, outcome # "ok" /\ ~Swallowed(outcome))
    /\ pc' = IF outcome # "ok" /\ ~Swallowed(outcome) /\ pc \notin {"exited", "uncaught"}
             THEN "L226" ELSE pc
    /\ UNCHANGED <<wake_ret, connection, retry_count, on_mains_read,
                   countdown_vars, now, power, UI, poller_vars, cmds, closed_by>>

stats_loop(outcome, v) ==
    /\ ActivePollers > 0
    /\ outcome \in StatsOutcomes(connection)
    /\ shared_data' = IF outcome = "ok" THEN Put(shared_data, "stats", v)
                      ELSE shared_data
    /\ event' = Ev("stats_loop", outcome, outcome # "ok" /\ ~Swallowed(outcome))
    /\ pc' = pc
    /\ UNCHANGED <<wake_ret, connection, retry_count, on_mains_read,
                   countdown_vars, now, power, UI, poller_vars, cmds, closed_by>>

\* ---- Server.run ----
\* lines 225-227: the frames of main are gone; close the handle if one is held
run_226 ==
    /\ pc = "L226"
    /\ IF connection # "None"
       THEN connection' = "closed" /\ closed_by' = "run"
       ELSE UNCHANGED <<connection, closed_by>>
    /\ pc' = "L228"
    /\ NoCountdown
    /\ event' = Ev("L226", "", FALSE)
    /\ UNCHANGED <<wake_ret, shared_data, retry_count, on_mains_read,
                   now, power, UI, poller_vars, cmds>>

\* line 228 left out: the closed handle stays held
run_228_kept ==
    /\ pc = "L228"
    /\ pc' = "L224"
    /\ event' = Ev("L228", "", FALSE)
    /\ UNCHANGED <<wake_ret, connection, shared_data, retry_count, on_mains_read,
                   countdown_vars, now, power, UI, poller_vars, cmds, closed_by>>

\* line 228, then the while True of line 222 calls main again
run_228 ==
    /\ pc = "L228"
    /\ connection' = "None"
    /\ pc' = "L224"
    /\ event' = Ev("L228", "", FALSE)
    /\ UNCHANGED <<wake_ret, shared_data, retry_count, on_mains_read,
                   countdown_vars, now, power, UI, poller_vars, cmds, closed_by>>

\* lines 229-232: a KeyboardInterrupt raised anywhere under self.main() closes
\* the handle and returns; raised inside the except clause of lines 226-228 it
\* is outside the try and leaves run uncaught
KeyboardInterrupt ==
    /\ pc \notin {"exited", "uncaught"}
    /\ IF pc \in {"L226", "L228"}
       THEN /\ pc' = "uncaught"
            /\ UNCHANGED <<connection, closed_by>>
       ELSE /\ pc' = "exited"
            /\ IF connection # "None"
               THEN connection' = "closed" /\ closed_by' = "run"
               ELSE UNCHANGED <<connection, closed_by>>
    /\ event' = Ev("KeyboardInterrupt", "", TRUE)
    /\ UNCHANGED <<wake_ret, shared_data, retry_count, on_mains_read,
                   countdown_vars, now, power, UI, poller_vars, cmds>>

\* ---- the environment: psutil.sensors_battery().power_plugged changes ----
PowerChange ==
    /\ pc \notin {"exited", "uncaught"}
    /\ power' = IF power = "mains" THEN "battery" ELSE "mains"
    /\ IF InCountdown
       THEN /\ flips' = IF flips < 2 THEN flips + 1 ELSE 2
            /\ mains_since' = IF power = "battery" THEN now ELSE mains_since
       ELSE UNCHANGED <<flips, mains_since>>
    /\ UNCHANGED <<pc, wake_ret, connection, shared_data, retry_count, on_mains_read,
                   start_clock, start_time, shutdown_time, mains_polls, now, UI,
                   poller_vars, event, cmds, closed_by>>

\* ---- the main thread ----
MainStep ==
    \/ run_224
    \/ main_204
    \/ wait_for_client_wakeup_115
    \/ wait_for_client_wakeup_120
    \/ wait_for_client_wakeup_122
    \/ wait_for_client_wakeup_126
    \/ ssh_connect_135
    \/ ssh_connect_137
    \/ ssh_connect_140
    \/ ssh_connect_141
    \/ ssh_connect_142
    \/ ssh_connect_148
    \/ wait_for_connection_156
    \/ main_206
    \/ main_211
    \/ main_214
    \/ battery_loop_165
    \/ battery_loop_173
    \/ battery_loop_174
    \/ battery_loop_177
    \/ battery_loop_178
    \/ battery_loop_179
    \/ battery_loop_180
    \/ battery_loop_184
    \/ battery_loop_188
    \/ battery_loop_189
    \/ battery_loop_190
    \/ battery_loop_191
    \/ run_226
    \/ run_228

PollerStep == \E outcome \in StatsOutcomes(connection), v \in StatsValues : stats_loop(outcome, v)

Next ==
    \/ MainStep
    \/ PollerStep
    \/ PowerChange
    \/ KeyboardInterrupt

Spec == Init /\ [][Next]_vars

TypeOK ==
    /\ connection \in {"None", "unopened", "open", "closed"}
    /\ retry_count \in 0..SSH_RETRY_LIMIT
    /\ now \in 0..MaxTime
    /\ stale \in 0..MaxStale
    /\ cmds \in 0..1

\* the run in which the operator does not terminate the process and the main
\* thread keeps being scheduled
NextLive ==
    \/ MainStep
    \/ PollerStep
    \/ PowerChange

LiveSpec == Init /\ [][NextLive]_vars /\ WF_vars(MainStep)

\* ---- properties ----
Deadline == shutdown_time * TicksPerSecond
Scheduled == Has(shared_data, "shutdown_scheduled", TRUE)
TimestampPresent == "shutdown_timestamp" \in DOMAIN shared_data

\* the power source came back exactly once during the countdown, strictly
\* before the grace period had elapsed
RestoredBeforeGrace == flips = 1 /\ mains_since < Deadline

\* C1: when the power source goes non-mains and returns to mains strictly
\* before the grace period has elapsed, no shutdown command is issued for that
\* countdown, and an aborted countdown leaves shutdown_scheduled False with
\* shutdown_timestamp removed.
C1_NoShutdownAfterRestore ==
    /\ event.op = "L188" => ~RestoredBeforeGrace
    /\ event.op = "L180" =>
          Has(shared_data, "shutdown_scheduled", FALSE) /\ ~TimestampPresent

\* C2: at every snapshot of the shared status, shutdown_scheduled is True
\* exactly when shutdown_timestamp is present.
C2_ScheduledIffTimestamp == Scheduled <=> TimestampPresent

\* the power source stayed non-mains from the start of the countdown for at
\* least the grace period, and came back only then
NonMainsForGrace ==
    flips = 1 /\ mains_since >= start_clock + ShutdownDelaySeconds * TicksPerSecond

\* C3 as stated: a countdown during which the power source stayed non-mains for
\* at least the grace period issues its one shutdown command, so it is never
\* aborted by a poll that reads mains.
C3_NonMainsForGraceShutsDown ==
    ~(event.op = "L178" /\ event.outcome = "mains" /\ NonMainsForGrace)

\* the clock has passed the deadline with every poll of the countdown having
\* read non-mains, early enough for the model's clock to cover the settle sleep
CountdownExpired ==
    /\ pc = "L177"
    /\ ~TimeLeq(now, shutdown_time)
    /\ now + SETTLE_SLEEP * TicksPerSecond + Jitter <= MaxTime

NewPassAfterShutdown == pc = "L204" /\ cmds = 1 /\ connection = "None"

\* C3 amended: when every power poll of a countdown has read non-mains and the
\* clock has passed the deadline, exactly one shutdown command is issued for
\* that countdown, and the main thread then reaches the next
\* wait_for_connection with the handle closed and discarded.
C3_ExpiredCountdownShutsDown ==
    /\ [](cmds <= 1)
    /\ (CountdownExpired ~> NewPassAfterShutdown)

C3_Witness == NewPassAfterShutdown /\ event.op \in {"L214", "L228"}

\* C4: wait_for_client_wakeup sends a wake packet only in an iteration whose
\* power read (line 120) was mains; after a non-mains read it goes straight
\* to the sleep.
C4_NoWakeOnBattery ==
    /\ event.op = "L122" => on_mains_read
    /\ (event.op = "L120" /\ event.outcome = "battery") => pc = "L126"

C4_Witness == event.op = "L120" /\ event.outcome = "battery" /\ pc = "L126"

\* C5: no stats_loop tick runs between battery_loop closing the handle after
\* the shutdown command and the next successful open of a handle.
C5_NoTickAfterClose == event.op = "stats_loop" => closed_by # "battery_loop"

\* C6: at most one poller is active at any time, and none is active when a
\* new pass begins.
C6_AtMostOnePoller ==
    /\ ActivePollers <= 1
    /\ pc = "L204" => ActivePollers = 0

\* the scheduler's side of the state: the main thread's position, the handle,
\* the countdown and the two shutdown fields of the shared status
SchedulerStatus ==
    [k \in (DOMAIN shared_data) \cap {"shutdown_scheduled", "shutdown_timestamp"}
        |-> shared_data[k]]
SchedulerState ==
    <<pc, wake_ret, connection, retry_count, start_time, shutdown_time, cmds,
      SchedulerStatus>>

C8_FailuresSwallowed ==
    (event.op = "stats_loop"
        /\ event.outcome \in {"SSHException", "NoValidConnectionsError", "malformed"})
      => ~event.raised

C10_ReturnsWithOpenHandle ==
    pc = "L206" => connection = "open" /\ Has(shared_data, "connection", TRUE)

C10_Witness == pc = "L206" /\ event.op = "L142" /\ connection = "open"

\* C11: a control-channel failure that leaves the function it was raised in
\* (NoValidConnectionsError from open, any failure of the shutdown command)
\* unwinds to run, which closes the held handle, discards it and calls main
\* again with no handle held; only a KeyboardInterrupt ends the process.
C11_FailureUnwindsToRun ==
    /\ []((event.op \in {"L141", "L188"} /\ event.raised) => pc = "L226")
    /\ [](event.op = "L226" => pc = "L228" /\ connection \in {"None", "closed"})
    /\ [](event.op = "L228" => pc = "L224" /\ connection = "None")
    /\ [](pc \in {"L224", "L204"} => connection = "None")
    /\ [][pc' \in {"exited", "uncaught"} /\ pc' # pc
            => event'.op = "KeyboardInterrupt"]_vars

C11_Witness ==
    /\ pc = "L204"
    /\ event.op = "L224"
    /\ closed_by = "run"
    /\ connection = "None"

\* C12: when the shutdown command fails, battery_loop does not go on to its
\* lines 189-192; the failure unwinds to run, and the main thread reaches the
\* next wait_for_connection with the handle closed by run and discarded, the
\* command having been issued once.
ShutdownCommandFailed == event.op = "L188" /\ event.outcome # "ok"

C12_FailedShutdownRestarts ==
    /\ [](ShutdownCommandFailed => pc = "L226" /\ cmds = 1)
    /\ (ShutdownCommandFailed
          ~> (pc = "L204" /\ connection = "None" /\ closed_by = "run" /\ cmds = 1))

C12_Witness == ShutdownCommandFailed /\ pc = "L226" /\ connection = "open"

\* C13: after an operator termination the handle is closed and nothing more
\* happens: no pass, no remote command, no telemetry tick (the last step the
\* program took stays the KeyboardInterrupt).
C13_NothingAfterTermination ==
    pc = "exited" =>
        /\ connection \in {"None", "closed"}
        /\ event.op = "KeyboardInterrupt"

\* C14: a shutdown command is issued only when the clock has passed the
\* deadline battery_loop computed and published (shutdown_time), from a
\* countdown that is still published and in which no poll read mains.
C14_ShutdownOnlyAfterDeadline ==
    (pc = "L188" \/ event.op = "L188") =>
        /\ now > Deadline
        /\ mains_polls = 0
        /\ Scheduled
        /\ Has(shared_data, "shutdown_timestamp", shutdown_time)

C14_Witness ==
    /\ event.op = "L188"
    /\ cmds = 1
    /\ now > Deadline
    /\ mains_polls = 0

\* C15: while main sleeps between two polls that read mains (battery_loop
\* returned True), no countdown is published.
C15_MonitoringPublishesNoCountdown ==
    pc = "L211" => ~Scheduled /\ ~TimestampPresent

\* C16: a new handle is created (line 140) only when the previous one has
\* been closed and discarded.
C16_ClosedBeforeNewHandle ==
    [][(pc = "L140" /\ pc' = "L141") => connection = "None"]_vars

\* C17: a held handle is open; apart from the statement pairs that create and
\* open it (lines 140-141) or close and discard it (lines 189-190, 226-228),
\* no state holds a handle that failed to open or that was closed.
C17_HeldHandleUsable ==
    pc \notin {"L141", "L190", "L228", "exited", "uncaught"}
        => connection \in {"None", "open"}

\* C18: connection = True is published only while an open handle is held
\* (apart from the close-and-discard statement pairs).
C18_ConnectedOnlyWhileLive ==
    (Has(shared_data, "connection", TRUE)
        /\ pc \notin {"L190", "L228", "exited", "uncaught"})
      => connection = "open"

\* C19 as stated: after an exhausted batch the back-off sleep comes first and
\* the reachability wait second, so that the step that starts a connect batch
\* is always a successful probe.
C19_BackoffThenProbe ==
    [][/\ (pc = "L148" /\ pc' \notin {"L148", "exited"}) => pc' = "L156"
       /\ (pc' = "L154" /\ pc # "L154")
            => (pc = "L115" /\ event'.outcome = "alive")]_vars

\* C19 amended: after an exhausted batch wait_for_connection first runs the
\* reachability wait again and, once a probe has found the remote reachable,
\* sleeps the back-off interval; the next connect batch follows that sleep.
\* Only the first batch of a pass directly follows a successful probe.
C19_ProbeThenBackoff ==
    [][/\ (pc = "L148" /\ pc' \notin {"L148", "exited"})
            => (pc' = "L115" /\ wake_ret' = "L155" /\ now' = now)
       /\ (pc' = "L156" /\ pc # "L156")
            => (pc = "L115" /\ wake_ret = "L155" /\ event'.outcome = "alive")
       /\ (pc = "L156" /\ pc' \notin {"L156", "exited"})
            => (pc' = "L154" /\ now' >= now + SSH_RETRY_INTERVAL * TicksPerSecond)
       /\ (pc' = "L154" /\ pc # "L154")
            => \/ pc = "L156"
               \/ pc = "L115" /\ wake_ret = "L153" /\ event'.outcome = "alive"]_vars

C19_Witness ==
    /\ event.op = "L156"
    /\ pc = "L154"
    /\ retry_count = SSH_RETRY_LIMIT
    /\ Has(shared_data, "connection", FALSE)

WakeupPcs == {"L115", "L120", "L122", "L126"}

\* C20: wait_for_client_wakeup returns only by a probe that found the remote
\* reachable; a probe that found it unreachable is followed by the power read,
\* and when that read is mains by exactly one wake packet and then one sleep
\* of the wake interval before the next probe.
C20_WakeThenSleepThenProbe ==
    [][/\ (pc \in WakeupPcs /\ pc' \notin WakeupPcs \cup {"exited"})
            => (pc = "L115" /\ event'.op = "L115" /\ event'.outcome = "alive")
       /\ (pc = "L115" /\ event'.op = "L115" /\ event'.outcome = "dead")
            => pc' = "L120"
       /\ (pc = "L120" /\ pc' \notin {"L120", "exited"} /\ power = "mains")
            => pc' = "L122"
       /\ (pc' = "L122" /\ pc # "L122") => (pc = "L120" /\ power = "mains")
       /\ (pc = "L122" /\ pc' \notin {"L122", "exited"})
            => (pc' = "L126" /\ event'.outcome = "wol")
       /\ (pc = "L126" /\ pc' \notin {"L126", "exited"})
            => (pc' = "L115" /\ now' >= now + WOL_PACKET_INTERVAL * TicksPerSecond)]_vars

C20_Witness ==
    /\ event.op = "L126"
    /\ on_mains_read
    /\ pc = "L115"

====
